---- MODULE Spec2Model ----
EXTENDS Integers, Sequences, FiniteSets, TLC

(***************************************************************************)
(* Model of nbno.py: the tile grid (Book.page_grid, Book.tile_url), the    *)
(* page composition (download_page), the resume and download loop of       *)
(* main, and the sampled colour statistic (color_percentage).              *)
(***************************************************************************)

\* ------------------------------------------------------------------ bounds
MaxRuns  == 2   \* invocations of the program that are followed
MaxStart == 2   \* largest --start tried
MaxStop  == 3   \* largest --stop tried (0 stands for an omitted --stop)
MaxCalls == 2   \* direct download_page calls of one library session

\* ------------------------------------------------------- program constants
max_samples == 5000
BookTile    == 1024
OtherTile   == 4096
BookOffset  == 5

VARIABLES
  manifest,     \* what the catalogue serves for --id: media type and canvases
  files,        \* the output directory: page index -> file
  pc,           \* position of the program
  mode,         \* "main": the command line run; "lib": a caller of download_page
  args,         \* --start / --stop
  book,         \* the Book object
  start_idx, stop_idx, i,      \* locals of main
  page,         \* download_page: page_name (its index in the manifest)
  grid,         \* download_page: (max_col, max_row) as returned by page_grid
  canvas,       \* download_page: full_page, the set of pasted positions
  row, col,     \* download_page: loop variables
  exc,          \* download_page: the exception pending in the try block
  requested,    \* history: the tile URLs requested by the current call
  pastes,       \* history: the paste positions of the current call, in order
  result,       \* history: how the last download_page call ended
  fileAtCall,   \* history: the file of the page when download_page was called
  attempted,    \* history: pages main passed to download_page in this run
  fetched,      \* history: pages for which a tile was requested in this run
  diskAtStart,  \* history: the output directory when the run started
  error,        \* how the run ended
  assembled,    \* the page list handed to the document writer
  runs, calls,
  gw, gh, gtype, gres,         \* page_grid applied to free inputs
  img, stat                    \* color_percentage applied to free inputs

mainVars == <<manifest, files, pc, mode, args, book, start_idx, stop_idx, i,
              page, grid, canvas, row, col, exc, requested, pastes, result,
              fileAtCall, attempted, fetched, diskAtStart, error, assembled,
              runs, calls>>
gridVars == <<gw, gh, gtype, gres>>
colorVars == <<img, stat>>
vars == <<mainVars, gridVars, colorVars>>

\* ----------------------------------------------------------------- helpers
Max2(a, b) == IF a >= b THEN a ELSE b
Min2(a, b) == IF a <= b THEN a ELSE b
SetMax(S) == CHOOSE x \in S : \A y \in S : y <= x

\* math.ceil(a / b) for b > 0 (the quotient is exact below 2^53)
CeilDiv(a, b) == -((-a) \div b)

\* ------------------------------------------------------------------- Book
NewBook(mt) ==
  [media_type |-> mt, page_data |-> <<>>, num_pages |-> 0,
   tile_width |-> BookTile, tile_height |-> BookTile]

set_tile_sizes(mt) ==
  IF mt \in {"digibok", "digitidsskrift"} THEN BookTile ELSE OtherTile

num_pages_of(mt, n) == IF mt = "digibok" THEN n - BookOffset ELSE n

page_grid_floor(w, h, tw, th) == <<w \div tw, h \div th>>

page_grid(w, h, tw, th) == <<CeilDiv(w, tw), CeilDiv(h, th)>>

tile_url_swapped(b, pg, c, r) ==
  [page |-> pg, x |-> r * b.tile_width, y |-> c * b.tile_height,
   w |-> b.tile_width, h |-> b.tile_height]

tile_url(b, pg, c, r) ==
  [page |-> pg, x |-> c * b.tile_width, y |-> r * b.tile_height,
   w |-> b.tile_width, h |-> b.tile_height]

\* ------------------------------------------------------------- file system
Absent == [exists |-> FALSE, canvas |-> {}, empty |-> FALSE]
Saved(cv) == [exists |-> TRUE, canvas |-> cv, empty |-> FALSE]
EmptyFile == [exists |-> TRUE, canvas |-> {}, empty |-> TRUE]
path_exists(f) == f.exists

\* ---------------------------------------------------------------- the runs
Manifests ==
  { [media_type |-> "digitidsskrift",
     canvases |-> << <<2000, 1500>>, <<1024, 1000>>, <<1025, 1024>> >>],
    [media_type |-> "digibok",
     canvases |-> << <<2000, 1000>>, <<900, 1000>>, <<900, 1000>>, <<900, 1000>>,
                     <<900, 1000>>, <<900, 1000>> >>],
    [media_type |-> "digavis",
     canvases |-> << <<4097, 4096>>, <<0, 1500>> >>],
    [media_type |-> "digikart",
     canvases |-> << <<-5, 100>>, <<5000, 3000>> >>] }

NoError == [kind |-> "none", page |-> -1]
NoResult == [status |-> "none", page |-> -1, path |-> -1, skipped |-> FALSE, err |-> "none"]
NoGrid == <<-1, -1>>

NPages == Len(manifest.canvases)
PageIdx == 0 .. NPages - 1

MainInit ==
  /\ files = [p \in 0 .. Len(manifest.canvases) - 1 |-> Absent]
  /\ pc = "idle"
  /\ mode = "main"
  /\ args = [start |-> 1, stop |-> 0]
  /\ book = NewBook(manifest.media_type)
  /\ start_idx = 0 /\ stop_idx = 0 /\ i = 0
  /\ page = 0 /\ grid = NoGrid /\ canvas = {} /\ row = 0 /\ col = 0
  /\ exc = "none"
  /\ requested = <<>> /\ pastes = <<>> /\ result = NoResult
  /\ fileAtCall = Absent
  /\ attempted = <<>> /\ fetched = {}
  /\ diskAtStart = files
  /\ error = NoError /\ assembled = <<>>
  /\ runs = 0 /\ calls = 0

GridOff == gw = 0 /\ gh = 0 /\ gtype = "digibok" /\ gres = NoGrid

NoStat ==
  [state |-> "off", step |-> 0, taken |-> 0, color |-> 0, den |-> 0, colorful |-> FALSE]

ColorOff ==
  /\ img = [n |-> 0, k |-> 0, fg |-> <<0, 0, 0>>, bg |-> <<0, 0, 0>>]
  /\ stat = NoStat

Init ==
  /\ manifest \in Manifests
  /\ MainInit
  /\ GridOff
  /\ ColorOff

dpVars == <<page, grid, canvas, row, col, exc, requested, pastes, result, fileAtCall>>

\* A new process: Book(media_id), set_media_type
Start(m, s, t) ==
  /\ pc \in {"idle", "ended"}
  /\ runs < MaxRuns
  /\ runs' = runs + 1
  /\ mode' = m
  /\ args' = [start |-> s, stop |-> t]
  /\ book' = NewBook(manifest.media_type)
  /\ pc' = "manifest"
  /\ start_idx' = 0 /\ stop_idx' = 0 /\ i' = 0
  /\ page' = 0 /\ grid' = NoGrid /\ canvas' = {} /\ row' = 0 /\ col' = 0
  /\ exc' = "none"
  /\ requested' = <<>> /\ pastes' = <<>> /\ result' = NoResult
  /\ fileAtCall' = Absent
  /\ attempted' = <<>> /\ fetched' = {}
  /\ diskAtStart' = files
  /\ error' = NoError /\ assembled' = <<>>
  /\ calls' = 0
  /\ UNCHANGED <<manifest, files, gridVars, colorVars>>

StartMain == \E s \in 0 .. MaxStart, t \in 0 .. MaxStop : Start("main", s, t)
StartLib == Start("lib", 1, 0)

\* Book.get_manifest: the request succeeds
GetManifest ==
  /\ pc = "manifest"
  /\ book' = [book EXCEPT !.page_data = manifest.canvases,
                          !.num_pages = num_pages_of(book.media_type, Len(manifest.canvases))]
  /\ pc' = IF mode = "main" THEN "resume" ELSE "lib"
  /\ UNCHANGED <<manifest, files, mode, args, start_idx, stop_idx, i, dpVars,
                 attempted, fetched, diskAtStart, error, assembled, runs, calls,
                 gridVars, colorVars>>

\* Book.get_manifest: raise_for_status or json() raises; nothing catches it
GetManifestFail ==
  /\ pc = "manifest"
  /\ pc' = "ended"
  /\ error' = [kind |-> "ManifestFetchFailed", page |-> -1]
  /\ UNCHANGED <<manifest, files, mode, args, book, start_idx, stop_idx, i, dpVars,
                 attempted, fetched, diskAtStart, assembled, runs, calls,
                 gridVars, colorVars>>

\* main: the highest index whose page image exists, or -1
last_downloaded_idx(fs, n) ==
  LET present == {j \in 0 .. n - 1 : path_exists(fs[j])}
  IN IF present = {} THEN -1 ELSE SetMax(present)

resume_start(start, last) == Max2(start - 1, last + 1)

resume_stop_before(stop, num_pages) == (IF stop # 0 THEN stop ELSE num_pages) - 1

resume_stop(stop, num_pages) == IF stop # 0 THEN stop ELSE num_pages

Resume ==
  /\ pc = "resume"
  /\ start_idx' = resume_start(args.start, last_downloaded_idx(files, Len(book.page_data)))
  /\ stop_idx' = resume_stop(args.stop, book.num_pages)
  /\ i' = start_idx'
  /\ pc' = "loop"
  /\ UNCHANGED <<manifest, files, mode, args, book, dpVars,
                 attempted, fetched, diskAtStart, error, assembled, runs, calls,
                 gridVars, colorVars>>

\* the call download_page(page_name, book, img_path)
Call(p) ==
  /\ page' = p
  /\ fileAtCall' = files[p]
  /\ grid' = NoGrid /\ canvas' = {} /\ row' = 0 /\ col' = 0 /\ exc' = "none"
  /\ requested' = <<>> /\ pastes' = <<>>
  /\ result' = [NoResult EXCEPT !.status = "running", !.page = p]
  /\ pc' = "dp_enter"

MainCall ==
  /\ pc = "loop"
  /\ i < stop_idx
  /\ i < Len(book.page_data)
  /\ Call(i)
  /\ attempted' = Append(attempted, i)
  /\ UNCHANGED <<manifest, files, mode, args, book, start_idx, stop_idx, i,
                 fetched, diskAtStart, error, assembled, runs, calls,
                 gridVars, colorVars>>

\* book.page_names[i] past the end of the list
MainIndexError ==
  /\ pc = "loop"
  /\ i < stop_idx
  /\ i >= Len(book.page_data)
  /\ pc' = "ended"
  /\ error' = [kind |-> "IndexError", page |-> i]
  /\ UNCHANGED <<manifest, files, mode, args, book, start_idx, stop_idx, i, dpVars,
                 attempted, fetched, diskAtStart, assembled, runs, calls,
                 gridVars, colorVars>>

MainLoopDone ==
  /\ pc = "loop"
  /\ i >= stop_idx
  /\ pc' = "assemble"
  /\ UNCHANGED <<manifest, files, mode, args, book, start_idx, stop_idx, i, dpVars,
                 attempted, fetched, diskAtStart, error, assembled, runs, calls,
                 gridVars, colorVars>>

\* main: all_images and the documents built from them
all_images(fs, n) ==
  LET F[k \in 0 .. n] ==
        IF k = 0 THEN <<>>
        ELSE IF path_exists(fs[k - 1]) THEN Append(F[k - 1], k - 1) ELSE F[k - 1]
  IN F[n]

Assemble ==
  /\ pc = "assemble"
  /\ LET imgs == all_images(files, Len(book.page_data))
     IN IF \E k \in 1 .. Len(imgs) : files[imgs[k]].empty
        THEN /\ error' = [kind |-> "UnidentifiedImageError", page |-> -1]
             /\ assembled' = assembled
        ELSE /\ assembled' = imgs
             /\ error' = error
  /\ pc' = "ended"
  /\ UNCHANGED <<manifest, files, mode, args, book, start_idx, stop_idx, i, dpVars,
                 attempted, fetched, diskAtStart, runs, calls,
                 gridVars, colorVars>>

\* a caller other than main applies download_page to a page of the book
LibCall ==
  /\ pc = "lib"
  /\ calls < MaxCalls
  /\ calls' = calls + 1
  /\ \E p \in 0 .. Len(book.page_data) - 1 : Call(p)
  /\ UNCHANGED <<manifest, files, mode, args, book, start_idx, stop_idx, i,
                 attempted, fetched, diskAtStart, error, assembled, runs,
                 gridVars, colorVars>>

LibDone ==
  /\ pc = "lib"
  /\ pc' = "ended"
  /\ UNCHANGED <<manifest, files, mode, args, book, start_idx, stop_idx, i, dpVars,
                 attempted, fetched, diskAtStart, error, assembled, runs, calls,
                 gridVars, colorVars>>

\* ---------------------------------------------------------- download_page
\* control leaves download_page by return
ReturnTo ==
  IF mode = "main"
  THEN pc' = "loop" /\ i' = i + 1 /\ error' = error
  ELSE pc' = "lib" /\ i' = i /\ error' = error

\* control leaves download_page by an exception: main does not catch it
RaiseTo(kind) ==
  IF mode = "main"
  THEN pc' = "ended" /\ i' = i /\ error' = [kind |-> kind, page |-> page]
  ELSE pc' = "lib" /\ i' = i /\ error' = error

skip_never(f) == FALSE

\* download_page: the guard os.path.exists(out_path)
already_saved(f) == path_exists(f)

\* if os.path.exists(out_path): return out_path
DpSkip ==
  /\ pc = "dp_enter"
  /\ already_saved(files[page])
  /\ result' = [status |-> "returned", page |-> page, path |-> page,
                skipped |-> TRUE, err |-> "none"]
  /\ ReturnTo
  /\ UNCHANGED <<manifest, files, mode, args, book, start_idx, stop_idx,
                 page, grid, canvas, row, col, exc, requested, pastes, fileAtCall,
                 attempted, fetched, diskAtStart, assembled, runs, calls,
                 gridVars, colorVars>>

\* page_grid (with set_tile_sizes) and Image.new((w,h))
DpEnter ==
  /\ pc = "dp_enter"
  /\ ~already_saved(files[page])
  /\ LET w == book.page_data[page + 1][1]
         h == book.page_data[page + 1][2]
         t == set_tile_sizes(book.media_type)
         g == page_grid(w, h, t, t)
     IN /\ book' = [book EXCEPT !.tile_width = t, !.tile_height = t]
        /\ grid' = g
        /\ IF w < 0 \/ h < 0
           THEN \* Image.new raises before the try block
                /\ result' = [status |-> "raised", page |-> page, path |-> -1,
                              skipped |-> FALSE, err |-> "ValueError"]
                /\ RaiseTo("ValueError")
           ELSE /\ result' = result
                /\ pc' = IF g[1] > 0 /\ g[2] > 0 THEN "dp_tiles" ELSE "dp_finally"
                /\ i' = i /\ error' = error
  /\ canvas' = {} /\ row' = 0 /\ col' = 0
  /\ UNCHANGED <<manifest, files, mode, args, start_idx, stop_idx,
                 page, exc, requested, pastes, fileAtCall,
                 attempted, fetched, diskAtStart, assembled, runs, calls,
                 gridVars, colorVars>>

\* the loop header: the cell after (c, r) in for row ...: for col ...
next_cell(c, r, g) == IF c + 1 < g[1] THEN <<c + 1, r>> ELSE <<0, r + 1>>

paste_at(b, c, r) == [x |-> c * b.tile_width, y |-> r * b.tile_height]

\* one iteration whose request and decode succeed
DpFetchOK ==
  /\ pc = "dp_tiles"
  /\ requested' = Append(requested, tile_url(book, page, col, row))
  /\ fetched' = fetched \cup {page}
  /\ canvas' = canvas \cup {paste_at(book, col, row)}
  /\ pastes' = Append(pastes, paste_at(book, col, row))
  /\ LET n == next_cell(col, row, grid)
     IN /\ col' = n[1]
        /\ row' = n[2]
        /\ pc' = IF n[2] < grid[2] THEN "dp_tiles" ELSE "dp_finally"
  /\ UNCHANGED <<manifest, files, mode, args, book, start_idx, stop_idx, i,
                 page, grid, exc, result, fileAtCall,
                 attempted, diskAtStart, error, assembled, runs, calls,
                 gridVars, colorVars>>

\* one iteration in which raise_for_status, Image.open or tile.load raises
DpFetchFail ==
  /\ pc = "dp_tiles"
  /\ requested' = Append(requested, tile_url(book, page, col, row))
  /\ fetched' = fetched \cup {page}
  /\ exc' = "TileFetchFailed"
  /\ pc' = "dp_finally"
  /\ UNCHANGED <<manifest, files, mode, args, book, start_idx, stop_idx, i,
                 page, grid, canvas, row, col, pastes, result, fileAtCall,
                 attempted, diskAtStart, error, assembled, runs, calls,
                 gridVars, colorVars>>

\* what full_page.save(out_path) leaves on disk
save_image(cv) == Saved(cv)

\* the save placed after the try block instead of in its finally clause
DpSave_unless_failed ==
  /\ pc = "dp_finally"
  /\ files' = IF exc # "none" THEN files ELSE [files EXCEPT ![page] = save_image(canvas)]
  /\ pc' = "dp_exit"
  /\ UNCHANGED <<manifest, mode, args, book, start_idx, stop_idx, i,
                 page, grid, canvas, row, col, exc, requested, pastes, result, fileAtCall,
                 attempted, fetched, diskAtStart, error, assembled, runs, calls,
                 gridVars, colorVars>>

\* finally: full_page.save(out_path); full_page.close()
DpSave ==
  /\ pc = "dp_finally"
  /\ LET w == book.page_data[page + 1][1]
         h == book.page_data[page + 1][2]
     IN IF w = 0 \/ h = 0
        THEN \* an empty image cannot be written as JPEG: save raises, and the
             \* file it opened is removed or left empty, depending on the library
             /\ \E f \in {Absent, EmptyFile} : files' = [files EXCEPT ![page] = f]
             /\ exc' = "ValueError"
        ELSE /\ files' = [files EXCEPT ![page] = save_image(canvas)]
             /\ exc' = exc
  /\ pc' = "dp_exit"
  /\ UNCHANGED <<manifest, mode, args, book, start_idx, stop_idx, i,
                 page, grid, canvas, row, col, requested, pastes, result, fileAtCall,
                 attempted, fetched, diskAtStart, error, assembled, runs, calls,
                 gridVars, colorVars>>

\* the pending exception propagates, or print and return out_path
DpExit ==
  /\ pc = "dp_exit"
  /\ IF exc # "none"
     THEN /\ result' = [status |-> "raised", page |-> page, path |-> -1,
                        skipped |-> FALSE, err |-> exc]
          /\ RaiseTo(exc)
     ELSE /\ result' = [status |-> "returned", page |-> page, path |-> page,
                        skipped |-> FALSE, err |-> "none"]
          /\ ReturnTo
  /\ UNCHANGED <<manifest, files, mode, args, book, start_idx, stop_idx,
                 page, grid, canvas, row, col, exc, requested, pastes, fileAtCall,
                 attempted, fetched, diskAtStart, assembled, runs, calls,
                 gridVars, colorVars>>

Next ==
  \/ StartMain
  \/ StartLib
  \/ GetManifest
  \/ GetManifestFail
  \/ Resume
  \/ MainCall
  \/ MainIndexError
  \/ MainLoopDone
  \/ Assemble
  \/ LibCall
  \/ LibDone
  \/ DpSkip
  \/ DpEnter
  \/ DpFetchOK
  \/ DpFetchFail
  \/ DpSave
  \/ DpExit

Spec == Init /\ [][Next]_vars

\* ------------------------------------------- page_grid on free page sizes
MediaTypes == {"digibok", "digitidsskrift", "digavis", "digikart"}
PageDims == {-2000, -5, 0, 1, 1023, 1024, 1025, 2000, 4095, 4096, 4097, 8192, 8193}

InitGrid ==
  /\ manifest = CHOOSE m \in Manifests : m.media_type = "digibok"
  /\ MainInit
  /\ ColorOff
  /\ gw \in PageDims /\ gh \in PageDims /\ gtype \in MediaTypes
  /\ gres = NoGrid

\* book.page_grid(page_name) for a page of size (gw, gh)
GridApply ==
  /\ gres = NoGrid
  /\ gres' = page_grid(gw, gh, set_tile_sizes(gtype), set_tile_sizes(gtype))
  /\ UNCHANGED <<mainVars, gw, gh, gtype, colorVars>>

NextGrid == GridApply

SpecGrid == InitGrid /\ [][NextGrid]_vars

\* --------------------------------------- color_percentage on free images
\* An image of img.n pixels: the first img.k are img.fg, the others img.bg.
Red == <<255, 0, 0>>
Olive == <<100, 140, 100>>
Gray == <<128, 128, 128>>
Faint == <<100, 120, 110>>

PixelCounts == {1, 7, 4999, 5000, 5001, 7500, 9999, 10000, 10001, 15000}

Images ==
  { [n |-> n, k |-> k, fg |-> f, bg |-> b] :
      n \in PixelCounts, k \in {0, 2, 2000, 3000, 4000, 15000},
      f \in {Red, Olive}, b \in {Gray, Faint} }

pixel(im, idx) == IF idx < im.k THEN im.fg ELSE im.bg

Abs(x) == IF x < 0 THEN -x ELSE x
Max3(a, b, c) == Max2(a, Max2(b, c))
Min3(a, b, c) == Min2(a, Min2(b, c))

\* line 47: the pixel counts as a colour pixel
is_color_pixel(px) ==
  LET r == px[1]
      g == px[2]
      b == px[3]
  IN /\ Max3(Abs(r - g), Abs(r - b), Abs(g - b)) > 30
     /\ Max3(r, g, b) - Min3(r, g, b) > 50

sample_step(n, sample_pixels) == n \div Min2(sample_pixels, n)

sampled(n, step) == {idx \in 0 .. n - 1 : idx % step = 0}

\* the denominator of the returned fraction
sample_denominator(n, sample_pixels, taken) == Min2(sample_pixels, n)

\* main: color_percentage(img) >= color_threshold_pct, with 0.4 = 4/10
is_colorful(num, den) == 10 * num >= 4 * den

InitColor ==
  /\ manifest = CHOOSE m \in Manifests : m.media_type = "digibok"
  /\ MainInit
  /\ GridOff
  /\ img \in Images
  /\ stat = NoStat

\* color_percentage(img) and the comparison main makes with its result
ColorApply ==
  /\ stat.state = "off"
  /\ LET step == sample_step(img.n, max_samples)
         vis == sampled(img.n, step)
         cp == Cardinality({idx \in vis : is_color_pixel(pixel(img, idx))})
         den == sample_denominator(img.n, max_samples, Cardinality(vis))
     IN stat' = [state |-> "done", step |-> step, taken |-> Cardinality(vis),
                 color |-> cp, den |-> den, colorful |-> is_colorful(cp, den)]
  /\ UNCHANGED <<mainVars, gridVars, img>>

NextColor == ColorApply

SpecColor == InitColor /\ [][NextColor]_vars

\* ------------------------------------------------------------- properties
Dims(p) == manifest.canvases[p + 1]
PositiveDims(p) == Dims(p)[1] > 0 /\ Dims(p)[2] > 0
TileOf == IF manifest.media_type \in {"digibok", "digitidsskrift"} THEN 1024 ELSE 4096

\* the k-th cell (from 1) of a grid of g[1] columns, rows first, as a region
RowMajor(g, t, pg) ==
  [k \in 1 .. g[1] * g[2] |->
     [page |-> pg, x |-> ((k - 1) % g[1]) * t, y |-> ((k - 1) \div g[1]) * t,
      w |-> t, h |-> t]]

PosOf(rq) == [x |-> rq.x, y |-> rq.y]
SeqSet(sq) == {sq[k] : k \in 1 .. Len(sq)}
Disjoint(a, b, t) ==
  \/ a.x + t <= b.x \/ b.x + t <= a.x \/ a.y + t <= b.y \/ b.y + t <= a.y

\* the pages a run was asked for: 1-based from --start up to and including
\* --stop, or up to the resolved page count when --stop is omitted
ResolvedCount == IF manifest.media_type = "digibok" THEN NPages - 5 ELSE NPages
Lo == Max2(args.start, 1)
Hi == IF args.stop = 0 THEN ResolvedCount ELSE args.stop
AskedPages == {p \in PageIdx : Lo <= p + 1 /\ p + 1 <= Hi}
EmptyAtStart == \A p \in PageIdx : ~diskAtStart[p].exists
MainEndedOK == mode = "main" /\ pc = "ended" /\ error.kind = "none"

\* C1: when a tile fetch of a page fails, the failing request is the last
\* one of that page, the canvas of the tiles pasted before it is written to
\* the output path, and the error leaves download_page only after that write.
C1_PartialResultOnFailure ==
  exc = "TileFetchFailed" =>
    /\ Len(requested) = Len(pastes) + 1
    /\ \A k \in 1 .. Len(pastes) : pastes[k] = PosOf(requested[k])
    /\ canvas = SeqSet(pastes)
    /\ result.status # "returned"
    /\ pc = "dp_finally" => result.status = "running" /\ files[page] = fileAtCall
    /\ pc = "dp_exit" => result.status = "running" /\ files[page] = Saved(canvas)
    /\ result.status = "raised" =>
         /\ result.err = "TileFetchFailed"
         /\ files[page] = Saved(canvas)
         /\ mode = "main" => pc = "ended" /\ error = [kind |-> "TileFetchFailed", page |-> page]

C1_Witness ==
  /\ mode = "main" /\ pc = "ended" /\ error.kind = "TileFetchFailed"
  /\ Len(pastes) = 2 /\ Len(requested) = 3
  /\ files[page].exists

\* C2 (as claimed): a run that ends normally has downloaded every asked page
\* that was absent from disk when it started, and no page that was present.
C2_ResumeDownloadsAllAbsent ==
  MainEndedOK =>
    SeqSet(attempted) = {p \in AskedPages : ~diskAtStart[p].exists}

\* C3 (as claimed): a page whose file holds only a partial canvas when a run
\* over a range containing it starts has its tiles fetched again by that run.
C3_PartialPageFetchedAgain ==
  MainEndedOK =>
    \A p \in AskedPages :
      (PositiveDims(p) /\ diskAtStart[p].exists
         /\ diskAtStart[p].canvas # {PosOf(rq) : rq \in SeqSet(RowMajor(
              page_grid(Dims(p)[1], Dims(p)[2], TileOf, TileOf), TileOf, p))})
      => p \in fetched

\* C4 (as claimed): after the tile fetch of a page failed, the run still
\* attempts every later asked page and hands the page list to the assembler.
C4_PageErrorDoesNotAbortRun ==
  (mode = "main" /\ pc = "ended" /\ error.kind = "TileFetchFailed") =>
    /\ \A p \in AskedPages : p > error.page => p \in SeqSet(attempted)
    /\ assembled # <<>>

\* C5: download_page on a page whose file exists requests no tile, leaves the
\* file as it was and returns the output path; and a call that requested
\* tiles leaves a file behind, so the next call for that page requests none.
C5_PageIdempotent ==
  /\ (result.status # "none" /\ fileAtCall.exists) =>
       /\ requested = <<>>
       /\ files[page] = fileAtCall
       /\ result.status \in {"running", "returned"}
       /\ result.status = "returned" => result.path = page
  /\ (result.status \in {"returned", "raised"} /\ requested # <<>>) =>
       files[page].exists

C5_Witness ==
  /\ mode = "lib" /\ calls = 2 /\ pc = "lib"
  /\ result.status = "returned" /\ result.skipped
  /\ fileAtCall.exists /\ fileAtCall.canvas # {}

\* C6 (as claimed): from an empty directory, a run that ends normally has
\* attempted exactly the pages with --start <= i < --stop (1-based).
C6_StopExclusive ==
  (MainEndedOK /\ EmptyAtStart) =>
    {p + 1 : p \in SeqSet(attempted)} = {n \in 1 .. NPages : args.start <= n /\ n < Hi}

\* C6 (amended): from an empty directory, main calls download_page for
\* consecutive pages starting at 1-based index max(--start, 1), never beyond
\* index --stop (the resolved page count when omitted: the manifest count,
\* minus 5 for digibok), and a run that ends normally has attempted every
\* page i with max(--start, 1) <= i <= --stop.
C6_StopInclusive ==
  (mode = "main" /\ EmptyAtStart) =>
    /\ \A k \in 1 .. Len(attempted) : attempted[k] + 1 = Lo + k - 1
    /\ \A k \in 1 .. Len(attempted) : attempted[k] + 1 <= Hi
    /\ (pc = "ended" /\ error.kind = "none") =>
         {p + 1 : p \in SeqSet(attempted)} = {n \in 1 .. NPages : Lo <= n /\ n <= Hi}

C6_Witness ==
  /\ MainEndedOK /\ EmptyAtStart
  /\ args.start = 2 /\ args.stop = 3
  /\ attempted = <<1, 2>>

\* C7: for a page of positive width and height, page_grid returns the least
\* positive column and row counts whose tiles cover the page.
C7_GridCovers ==
  (gres # NoGrid /\ gw > 0 /\ gh > 0) =>
    LET t == IF gtype \in {"digibok", "digitidsskrift"} THEN 1024 ELSE 4096
    IN /\ gres[1] * t >= gw /\ (gres[1] - 1) * t < gw
       /\ gres[2] * t >= gh /\ (gres[2] - 1) * t < gh

C7_Witness ==
  /\ gw = 2000 /\ gh = 1025 /\ gtype = "digitidsskrift" /\ gres = <<2, 2>>

\* C8 (as claimed): download_page on a page whose width or height is not
\* positive ends with InvalidGeometry, without a grid, a tile request or a file.
C8_InvalidGeometryRejected ==
  (result.status \in {"returned", "raised"} /\ ~fileAtCall.exists /\ ~PositiveDims(page)) =>
    /\ result.status = "raised" /\ result.err = "InvalidGeometry"
    /\ grid = NoGrid
    /\ requested = <<>>
    /\ ~files[page].exists

\* C9 (as claimed): the stride is max(1, floor(n / 5000)), at most 5000
\* pixels are sampled, and the page is colourful exactly when the colour
\* samples are at least 0.4 of the samples taken, a fraction within [0, 1].
C9_FractionOfSamplesTaken ==
  stat.state = "done" =>
    /\ stat.step = Max2(1, img.n \div 5000)
    /\ stat.taken <= 5000
    /\ stat.den = stat.taken
    /\ stat.color <= stat.den
    /\ stat.colorful <=> (10 * stat.color >= 4 * stat.taken)

\* C10: a composition requests the cells of the grid in row-major order, each
\* once, with region (col*tile, row*tile, tile, tile), pastes each tile at its
\* region's origin, so that no two pasted regions overlap, and writes the
\* file only after the last tile: a call that returns has requested them all.
C10_RowMajorOnce ==
  (result.status # "none" /\ ~fileAtCall.exists /\ grid # NoGrid /\ grid[1] > 0 /\ grid[2] > 0) =>
    LET rm == RowMajor(grid, TileOf, page)
    IN /\ Len(requested) <= Len(rm)
       /\ \A k \in 1 .. Len(requested) : requested[k] = rm[k]
       /\ \A a, b \in 1 .. Len(requested) : a # b => requested[a] # requested[b]
       /\ Len(pastes) <= Len(requested)
       /\ \A k \in 1 .. Len(pastes) : pastes[k] = PosOf(requested[k])
       /\ \A a, b \in 1 .. Len(pastes) : a # b => Disjoint(pastes[a], pastes[b], TileOf)
       /\ (pc = "dp_tiles" \/ (pc = "dp_finally" /\ exc = "none")) => ~files[page].exists
       /\ (pc = "dp_finally" /\ exc = "none") => Len(pastes) = Len(rm)
       /\ result.status = "returned" =>
            /\ requested = rm
            /\ Len(pastes) = Len(rm)
            /\ files[page] = Saved({PosOf(rm[k]) : k \in 1 .. Len(rm)})

C10_Witness ==
  /\ result.status = "returned" /\ ~result.skipped
  /\ Len(requested) = 4 /\ grid = <<2, 2>>
  /\ requested[2].x = 1024 /\ requested[2].y = 0
  /\ requested[3].x = 0 /\ requested[3].y = 1024

====
